---------------------------- MODULE Spec2Model ----------------------------
(***************************************************************************)
(* A model of bitcoinaddress/validation.py: base58-check and bech32        *)
(* (BIP-173) address validation.                                           *)
(*                                                                         *)
(* Text is modelled as a sequence of code points (Python's ord), a byte    *)
(* string as a sequence of numbers 0..255, and Python's unbounded int as a *)
(* big-endian sequence of base-256 limbs without leading zero limbs (the   *)
(* empty sequence is 0), so that every number of the model is a 32-bit     *)
(* integer.                                                                *)
(*                                                                         *)
(* The module runs on two kinds of interpreter, and the code branches on   *)
(* them itself ("Python version < 3.2"): "py2", where int has neither      *)
(* to_bytes nor from_bytes (AttributeError, the fall-back helpers run) and *)
(* chr() gives a byte string, and "py3", where int.to_bytes exists and     *)
(* raises OverflowError on a number that does not fit, and where           *)
(* bytes.startswith(str) raises TypeError.                                 *)
(***************************************************************************)
EXTENDS Integers, Sequences, FiniteSets

VARIABLES
    python,  \* the interpreter the module runs on
    arg,     \* the calls a caller makes, in order: one record of arguments each
    ret,     \* what the calls made so far ended with
    pc       \* the function called next, "done", or "raised" when a call raised

vars == <<python, arg, ret, pc>>

Interpreters == {"py2", "py3"}

-----------------------------------------------------------------------------
(* Sequences and bits *)

Range(s) == {s[i] : i \in 1..Len(s)}

\* Python's s[a:b] for 0 <= a, as the 1-based SubSeq
Slice(s, a, b) == SubSeq(s, a + 1, IF b > Len(s) THEN Len(s) ELSE b)

RECURSIVE Repeat(_, _)
Repeat(x, k) == IF k <= 0 THEN <<>> ELSE <<x>> \o Repeat(x, k - 1)

RECURSIVE Reverse(_)
Reverse(s) == IF s = <<>> THEN <<>> ELSE Append(Reverse(Tail(s)), Head(s))

\* s.index(x) / s.find(x): the 0-based position of the first x, -1 if none
RECURSIVE FindFrom(_, _, _)
FindFrom(s, x, i) ==
    IF i > Len(s) THEN -1
    ELSE IF s[i] = x THEN i - 1
    ELSE FindFrom(s, x, i + 1)

Find(s, x) == FindFrom(s, x, 1)

\* s.rfind(x): the 0-based position of the last x, -1 if none
RECURSIVE RFindFrom(_, _, _)
RFindFrom(s, x, i) ==
    IF i < 1 THEN -1
    ELSE IF s[i] = x THEN i - 1
    ELSE RFindFrom(s, x, i - 1)

RFind(s, x) == RFindFrom(s, x, Len(s))

RECURSIVE XorBits(_, _)
XorBits(a, b) ==
    IF a = 0 THEN b
    ELSE IF b = 0 THEN a
    ELSE ((a + b) % 2) + 2 * XorBits(a \div 2, b \div 2)

RECURSIVE AndBits(_, _)
AndBits(a, b) ==
    IF a = 0 \/ b = 0 THEN 0
    ELSE ((a % 2) * (b % 2)) + 2 * AndBits(a \div 2, b \div 2)

XorTab == [a \in 0..255 |-> [b \in 0..255 |-> XorBits(a, b)]]
AndTab == [a \in 0..255 |-> [b \in 0..255 |-> AndBits(a, b)]]

\* a ^ b, a & b and a | b of Python, for a, b >= 0
RECURSIVE Xor(_, _)
Xor(a, b) ==
    IF a = 0 THEN b
    ELSE IF b = 0 THEN a
    ELSE XorTab[a % 256][b % 256] + 256 * Xor(a \div 256, b \div 256)

RECURSIVE And(_, _)
And(a, b) ==
    IF a = 0 \/ b = 0 THEN 0
    ELSE AndTab[a % 256][b % 256] + 256 * And(a \div 256, b \div 256)

Or(a, b) == a + b - And(a, b)

\* a >> k and a << k of Python, for a >= 0
Shr(a, k) == a \div (2 ^ k)
Shl(a, k) == a * (2 ^ k)

-----------------------------------------------------------------------------
(* hashlib.sha256 (FIPS 180-4), on 32-bit words kept as <<high 16 bits,    *)
(* low 16 bits>>                                                           *)

SHA_K == <<
    <<17034, 12184>>, <<28983, 17553>>, <<46528, 64463>>, <<59829, 56229>>,
    <<14678, 49755>>, <<23025, 4593>>, <<37439, 33444>>, <<43804, 24277>>,
    <<55303, 43672>>, <<4739, 23297>>, <<9265, 34238>>, <<21772, 32195>>,
    <<29374, 23924>>, <<32990, 45566>>, <<39900, 1703>>, <<49563, 61812>>,
    <<58523, 27073>>, <<61374, 18310>>, <<4033, 40390>>, <<9228, 41420>>,
    <<11753, 11375>>, <<19060, 33962>>, <<23728, 43484>>, <<30457, 35034>>,
    <<38974, 20818>>, <<43057, 50797>>, <<45059, 10184>>, <<48985, 32711>>,
    <<50912, 3059>>, <<54695, 37191>>, <<1738, 25425>>, <<5161, 10599>>,
    <<10167, 2693>>, <<11803, 8504>>, <<19756, 28156>>, <<21304, 3347>>,
    <<25866, 29524>>, <<30314, 2747>>, <<33218, 51502>>, <<37490, 11397>>,
    <<41663, 59553>>, <<43034, 26187>>, <<49739, 35696>>, <<51052, 20899>>,
    <<53650, 59417>>, <<54937, 1572>>, <<62478, 13701>>, <<4202, 41072>>,
    <<6564, 49430>>, <<7735, 27656>>, <<10056, 30540>>, <<13488, 48309>>,
    <<14620, 3251>>, <<20184, 43594>>, <<23452, 51791>>, <<26670, 28659>>,
    <<29839, 33518>>, <<30885, 25455>>, <<33992, 30740>>, <<36039, 520>>,
    <<37054, 65530>>, <<42064, 27883>>, <<48889, 41975>>, <<50801, 30962>> >>

SHA_H0 == <<
    <<27145, 58983>>, <<47975, 44677>>, <<15470, 62322>>, <<42319, 62778>>,
    <<20750, 21119>>, <<39685, 26764>>, <<8067, 55723>>, <<23520, 52505>> >>

Xor16(a, b) ==
    XorTab[a \div 256][b \div 256] * 256 + XorTab[a % 256][b % 256]

And16(a, b) ==
    AndTab[a \div 256][b \div 256] * 256 + AndTab[a % 256][b % 256]

WXor(x, y) == <<Xor16(x[1], y[1]), Xor16(x[2], y[2])>>
WAnd(x, y) == <<And16(x[1], y[1]), And16(x[2], y[2])>>
WNot(x) == <<65535 - x[1], 65535 - x[2]>>

WAdd(x, y) ==
    LET lo == x[2] + y[2]
    IN  <<(x[1] + y[1] + lo \div 65536) % 65536, lo % 65536>>

\* rotate and shift right by 0 < r < 32
WRotr(x, r) ==
    LET hi == IF r >= 16 THEN x[2] ELSE x[1]
        lo == IF r >= 16 THEN x[1] ELSE x[2]
        q  == 2 ^ (r % 16)
        p  == 65536 \div q
    IN  <<hi \div q + (lo % q) * p, lo \div q + (hi % q) * p>>

WShr(x, r) ==
    LET q == 2 ^ r
        p == 65536 \div q
    IN  <<x[1] \div q, x[2] \div q + (x[1] % q) * p>>

BigSigma0(x) == WXor(WXor(WRotr(x, 2), WRotr(x, 13)), WRotr(x, 22))
BigSigma1(x) == WXor(WXor(WRotr(x, 6), WRotr(x, 11)), WRotr(x, 25))
SmallSigma0(x) == WXor(WXor(WRotr(x, 7), WRotr(x, 18)), WShr(x, 3))
SmallSigma1(x) == WXor(WXor(WRotr(x, 17), WRotr(x, 19)), WShr(x, 10))
Ch(x, y, z) == WXor(WAnd(x, y), WAnd(WNot(x), z))
Maj(x, y, z) == WXor(WXor(WAnd(x, y), WAnd(x, z)), WAnd(y, z))

\* the message with the 1 bit, the zero fill and its 64-bit length in bits
ShaPad(m) ==
    LET fill == (55 - Len(m)) % 64
        bits == Len(m) * 8
    IN  m \o <<128>> \o Repeat(0, fill) \o <<0, 0, 0, 0>>
          \o <<bits \div 16777216, (bits \div 65536) % 256,
               (bits \div 256) % 256, bits % 256>>

RECURSIVE ShaSchedule(_)
ShaSchedule(w) ==
    IF Len(w) >= 64 THEN w
    ELSE LET t == Len(w) + 1
         IN  ShaSchedule(Append(w,
                 WAdd(WAdd(SmallSigma1(w[t - 2]), w[t - 7]),
                      WAdd(SmallSigma0(w[t - 15]), w[t - 16]))))

RECURSIVE ShaRounds(_, _, _)
ShaRounds(s, w, t) ==
    IF t > Len(SHA_K) \/ Len(s) # 8 THEN s
    ELSE LET t1 == WAdd(WAdd(WAdd(s[8], BigSigma1(s[5])),
                             WAdd(Ch(s[5], s[6], s[7]), SHA_K[t])), w[t])
             t2 == WAdd(BigSigma0(s[1]), Maj(s[1], s[2], s[3]))
         IN  ShaRounds(<<WAdd(t1, t2), s[1], s[2], s[3],
                         WAdd(s[4], t1), s[5], s[6], s[7]>>, w, t + 1)

ShaBlock(h, blk) ==
    LET w == ShaSchedule([i \in 1..16 |->
                 <<blk[4 * i - 3] * 256 + blk[4 * i - 2],
                   blk[4 * i - 1] * 256 + blk[4 * i]>>])
        s == ShaRounds(h, w, 1)
    IN  [i \in 1..8 |-> WAdd(h[i], s[i])]

RECURSIVE ShaBlocks(_, _)
ShaBlocks(h, m) ==
    IF m = <<>> THEN h
    ELSE ShaBlocks(ShaBlock(h, SubSeq(m, 1, 64)), SubSeq(m, 65, Len(m)))

\* sha256(m).digest(): 32 bytes
sha256(m) ==
    LET h == ShaBlocks(SHA_H0, ShaPad(m))
    IN  [i \in 1..32 |->
            LET x == h[(i + 3) \div 4]
                k == (i - 1) % 4
            IN  IF k = 0 THEN x[1] \div 256
                ELSE IF k = 1 THEN x[1] % 256
                ELSE IF k = 2 THEN x[2] \div 256
                ELSE x[2] % 256]

-----------------------------------------------------------------------------
(* Values of the program *)

\* None is the empty tuple and any other value x is <<x>>, so that a result
\* that may be None is always a tuple
None == <<>>
Some(x) == <<x>>

\* what a call ends with: the value it returns or the exception it raises
Return(v) == [exc |-> "", val |-> <<v>>]
Raise(e) == [exc |-> e, val |-> <<>>]
Returns(r, v) == r.exc = "" /\ r.val = <<v>>

\* str.lower() and str.upper() of one character (the ASCII letters, and
\* U+212A KELVIN SIGN, the one character outside ASCII whose lower case is
\* an ASCII letter while its upper case is itself)
KELVIN == 8490

LowerChar(c) ==
    IF c >= 65 /\ c <= 90 THEN c + 32
    ELSE IF c = KELVIN THEN 107
    ELSE c

UpperChar(c) == IF c >= 97 /\ c <= 122 THEN c - 32 ELSE c

Lower(s) == [i \in 1..Len(s) |-> LowerChar(s[i])]
Upper(s) == [i \in 1..Len(s) |-> UpperChar(s[i])]

\* '123456789ABCDEFGHJKLMNPQRSTUVWXYZabcdefghijkmnopqrstuvwxyz'
digits58 == <<49, 50, 51, 52, 53, 54, 55, 56, 57, 65, 66, 67, 68, 69, 70,
    71, 72, 74, 75, 76, 77, 78, 80, 81, 82, 83, 84, 85, 86, 87, 88, 89, 90,
    97, 98, 99, 100, 101, 102, 103, 104, 105, 106, 107, 109, 110, 111, 112,
    113, 114, 115, 116, 117, 118, 119, 120, 121, 122>>

\* "qpzry9x8gf2tvdw0s3jn54khce6mua7l"
CHARSET == <<113, 112, 122, 114, 121, 57, 120, 56, 103, 102, 50, 116, 118,
    100, 119, 48, 115, 51, 106, 110, 53, 52, 107, 104, 99, 101, 54, 109,
    117, 97, 55, 108>>

-----------------------------------------------------------------------------
(* Python's int: big-endian base-256 limbs, no leading zero limb *)

RECURSIVE Strip(_)
Strip(n) == IF n # <<>> /\ Head(n) = 0 THEN Strip(Tail(n)) ELSE n

\* The loops below carry their variables as one tuple, st.

\* n * m + d for small m, d >= 0; st = <<carry, limbs done>>
RECURSIVE MulAddFrom(_, _, _)
MulAddFrom(n, m, st) ==
    LET i == Len(n) - Len(st[2])
        v == n[i] * m + st[1]
    IN  IF i = 0 THEN Strip(<<st[1] \div 256, st[1] % 256>> \o st[2])
        ELSE MulAddFrom(n, m, <<v \div 256, <<v % 256>> \o st[2]>>)

MulAdd(n, m, d) == MulAddFrom(n, m, <<d, <<>> >>)

\* divmod(n, m) for small m > 0: <<quotient, remainder>>;
\* st = <<remainder, quotient limbs done>>
RECURSIVE DivModFrom(_, _, _)
DivModFrom(n, m, st) ==
    LET i == Len(st[2]) + 1
        v == st[1] * 256 + n[i]
    IN  IF i > Len(n) THEN <<Strip(st[2]), st[1]>>
        ELSE DivModFrom(n, m, <<v % m, Append(st[2], v \div m)>>)

DivMod(n, m) == DivModFrom(n, m, <<0, <<>> >>)

\* (n >> i * 8) & 0xff
ByteOf(n, i) == IF i < Len(n) THEN n[Len(n) - i] ELSE 0

-----------------------------------------------------------------------------
(* Base58 *)

\* sum(v << i * 8 ...) over the bytes, in the given order
bytes_to_long(bytestring, byteorder) ==
    IF byteorder = "little" THEN Strip(Reverse(bytestring))
    ELSE Strip(bytestring)

long_to_bytes(n, length, byteorder) ==
    IF byteorder = "little"
    THEN [k \in 1..length |-> ByteOf(n, k - 1)]
    ELSE [k \in 1..length |-> ByteOf(n, length - k)]

\* n.to_bytes(length, 'big') where int has it
to_bytes(n, length) ==
    IF Len(n) > length THEN Raise("OverflowError")
    ELSE Return(Repeat(0, length - Len(n)) \o n)

\* the loop of decode_base58: the number, or None at a character that is
\* not in digits58; st = <<characters done, n>>
RECURSIVE DecodeDigits(_, _)
DecodeDigits(s, st) ==
    LET i == st[1] + 1
    IN  IF i > Len(s) THEN Some(st[2])
        ELSE IF Find(digits58, s[i]) < 0 THEN None
        ELSE DecodeDigits(s, <<i, MulAdd(st[2], 58, Find(digits58, s[i]))>>)

decode_base58(py, bitcoin_address, length) ==
    LET n == DecodeDigits(bitcoin_address, <<0, <<>> >>)
    IN  IF n = None THEN Raise("ValueError")
        ELSE IF py = "py3" THEN to_bytes(n[1], length)
        ELSE Return(long_to_bytes(n[1], length, "big"))

RECURSIVE CountZeros(_, _)
CountZeros(bytestring, i) ==
    IF i <= Len(bytestring) /\ bytestring[i] = 0
    THEN 1 + CountZeros(bytestring, i + 1)
    ELSE 0

\* the divmod loop of encode_base58: the digits, least significant first
\* st = <<n, rest, result>>
RECURSIVE EncodeDigits(_)
EncodeDigits(st) ==
    LET qr == DivMod(st[1], 58)
    IN  IF st[1] = <<>> /\ st[2] = 0 THEN st[3]
        ELSE EncodeDigits(<<qr[1], qr[2], Append(st[3], digits58[st[2] + 1])>>)

\* encode_base58 that returns the digits in the order the loop makes them
encode_base58_unreversed(bytestring) ==
    LET zeros == CountZeros(bytestring, 1)
        n == bytes_to_long(bytestring, "big")
        qr == DivMod(n, 58)
        result == EncodeDigits(<<qr[1], qr[2], <<>> >>)
    IN  Repeat(49, zeros) \o result

encode_base58(bytestring) ==
    LET zeros == CountZeros(bytestring, 1)
        n == bytes_to_long(bytestring, "big")
        qr == DivMod(n, 58)
        result == EncodeDigits(<<qr[1], qr[2], <<>> >>)
    IN  Repeat(49, zeros) \o Reverse(result)

\* sha256(sha256(bcbytes[:-4]).digest()).digest()[:4]
Checksum(bcbytes) ==
    SubSeq(sha256(sha256(SubSeq(bcbytes, 1, Len(bcbytes) - 4))), 1, 4)

\* validate_base58 that stops at the checksum
validate_base58_checksum_only(py, bitcoin_address, magicbyte) ==
    LET clen == Len(bitcoin_address)
        dec == decode_base58(py, bitcoin_address, 25)
        bcbytes == dec.val[1]
    IN  IF clen < 27 \/ clen > 35 THEN Return(FALSE)
        ELSE IF dec.exc = "ValueError" THEN Return(FALSE)
        ELSE IF dec.exc # "" THEN dec
        ELSE IF magicbyte # <<>> /\ py = "py3" THEN Raise("TypeError")
        ELSE IF \A k \in 1..Len(magicbyte) : bcbytes[1] # magicbyte[k] THEN Return(FALSE)
        ELSE Return(SubSeq(bcbytes, 22, 25) = Checksum(bcbytes))

\* validate_base58 whose last check decodes the encoding of the payload
\* again, where the code compares the encoding with the address
validate_base58_redecode(py, bitcoin_address, magicbyte) ==
    LET clen == Len(bitcoin_address)
        dec == decode_base58(py, bitcoin_address, 25)
        bcbytes == dec.val[1]
    IN  IF clen < 27 \/ clen > 35 THEN Return(FALSE)
        ELSE IF dec.exc = "ValueError" THEN Return(FALSE)
        ELSE IF dec.exc # "" THEN dec
        ELSE IF magicbyte # <<>> /\ py = "py3" THEN Raise("TypeError")
        ELSE IF \A k \in 1..Len(magicbyte) : bcbytes[1] # magicbyte[k] THEN Return(FALSE)
        ELSE IF SubSeq(bcbytes, 22, 25) # Checksum(bcbytes) THEN Return(FALSE)
        ELSE Return(decode_base58(py, encode_base58(bcbytes), 25)
                      = Return(bcbytes))

validate_base58(py, bitcoin_address, magicbyte) ==
    LET clen == Len(bitcoin_address)
        dec == decode_base58(py, bitcoin_address, 25)
        bcbytes == dec.val[1]
    IN  IF clen < 27 \/ clen > 35 THEN Return(FALSE)
        ELSE IF dec.exc = "ValueError" THEN Return(FALSE)
        ELSE IF dec.exc # "" THEN dec
        ELSE IF magicbyte # <<>> /\ py = "py3" THEN Raise("TypeError")
        ELSE IF \A k \in 1..Len(magicbyte) : bcbytes[1] # magicbyte[k]
             THEN Return(FALSE)
        ELSE IF SubSeq(bcbytes, 22, 25) # Checksum(bcbytes) THEN Return(FALSE)
        ELSE Return(bitcoin_address = encode_base58(bcbytes))

-----------------------------------------------------------------------------
(* Bech32 *)

\* generator of bech32_polymod: 0x3b6a57b2, 0x26508e6d, 0x1ea119fa,
\* 0x3d4233dd, 0x2a1462b3
generator == <<996825010, 642813549, 513874426, 1027748829, 705979059>>

\* the inner loop of bech32_polymod; st = <<i, chk>>, i = 0..4
RECURSIVE PolymodGen(_, _)
PolymodGen(top, st) ==
    LET i == st[1]
        chk == st[2]
    IN  IF i >= 5 THEN chk
        ELSE PolymodGen(top,
                 <<i + 1,
                   Xor(chk, IF And(Shr(top, i), 1) # 0
                            THEN generator[i + 1] ELSE 0)>>)

\* the outer loop; st = <<values done, chk>>
RECURSIVE PolymodFrom(_, _)
PolymodFrom(values, st) ==
    LET k == st[1] + 1
        chk == st[2]
        top == Shr(chk, 25)
    IN  IF k > Len(values) THEN chk
        ELSE PolymodFrom(values,
                 <<k, PolymodGen(top,
                          <<0, Xor(Shl(And(chk, 33554431), 5), values[k])>>)>>)

bech32_polymod(values) == PolymodFrom(values, <<0, 1>>)

bech32_hrp_expand(hrp) ==
    [i \in 1..Len(hrp) |-> Shr(hrp[i], 5)] \o <<0>>
        \o [i \in 1..Len(hrp) |-> And(hrp[i], 31)]

bech32_verify_checksum(hrp, data) ==
    bech32_polymod(bech32_hrp_expand(hrp) \o data) = 1

\* bech32_decode that keeps the case of the string
bech32_decode_cased(bech0) ==
    IF (\E i \in 1..Len(bech0) : bech0[i] < 33 \/ bech0[i] > 126)
         \/ (Lower(bech0) # bech0 /\ Upper(bech0) # bech0)
    THEN <<None, None>>
    ELSE LET bech == bech0
             pos == RFind(bech, 49)
             rest == Slice(bech, pos + 1, Len(bech))
             hrp == Slice(bech, 0, pos)
             data == [i \in 1..Len(rest) |-> Find(CHARSET, rest[i])]
         IN  IF pos < 1 \/ pos + 7 > Len(bech) \/ Len(bech) > 90
             THEN <<None, None>>
             ELSE IF \E i \in 1..Len(rest) : Find(CHARSET, rest[i]) < 0
             THEN <<None, None>>
             ELSE IF ~bech32_verify_checksum(hrp, data)
             THEN <<None, None>>
             ELSE <<Some(hrp), Some(SubSeq(data, 1, Len(data) - 6))>>

\* bech32_decode that does not verify the checksum
bech32_decode_unverified(bech0) ==
    IF (\E i \in 1..Len(bech0) : bech0[i] < 33 \/ bech0[i] > 126)
         \/ (Lower(bech0) # bech0 /\ Upper(bech0) # bech0)
    THEN <<None, None>>
    ELSE LET bech == Lower(bech0)
             pos == RFind(bech, 49)
             rest == Slice(bech, pos + 1, Len(bech))
             hrp == Slice(bech, 0, pos)
             data == [i \in 1..Len(rest) |-> Find(CHARSET, rest[i])]
         IN  IF pos < 1 \/ pos + 7 > Len(bech) \/ Len(bech) > 90
             THEN <<None, None>>
             ELSE IF \E i \in 1..Len(rest) : Find(CHARSET, rest[i]) < 0
             THEN <<None, None>>
             ELSE <<Some(hrp), Some(SubSeq(data, 1, Len(data) - 6))>>

\* (hrp, data), each None or a value
bech32_decode(bech0) ==
    IF (\E i \in 1..Len(bech0) : bech0[i] < 33 \/ bech0[i] > 126)
         \/ (Lower(bech0) # bech0 /\ Upper(bech0) # bech0)
    THEN <<None, None>>
    ELSE LET bech == Lower(bech0)
             pos == RFind(bech, 49)
             rest == Slice(bech, pos + 1, Len(bech))
             hrp == Slice(bech, 0, pos)
             data == [i \in 1..Len(rest) |-> Find(CHARSET, rest[i])]
         IN  IF pos < 1 \/ pos + 7 > Len(bech) \/ Len(bech) > 90
             THEN <<None, None>>
             ELSE IF \E i \in 1..Len(rest) : Find(CHARSET, rest[i]) < 0
             THEN <<None, None>>
             ELSE IF ~bech32_verify_checksum(hrp, data)
             THEN <<None, None>>
             ELSE <<Some(hrp), Some(SubSeq(data, 1, Len(data) - 6))>>

\* the loop of convertbits; st = <<values done, acc, bits, ret>>; None at a
\* value out of range, or <<acc, bits, ret>> after the last value
RECURSIVE ConvertLoop(_, _, _, _)
ConvertLoop(data, frombits, tobits, st) ==
    LET k == st[1] + 1
        maxv == Shl(1, tobits) - 1
        max_acc == Shl(1, frombits + tobits - 1) - 1
        acc == And(Or(Shl(st[2], frombits), data[k]), max_acc)
        bits == st[3] + frombits
        n == bits \div tobits
    IN  IF k > Len(data) THEN Some(<<st[2], st[3], st[4]>>)
        ELSE IF data[k] < 0 \/ Shr(data[k], frombits) # 0 THEN None
        ELSE ConvertLoop(data, frombits, tobits,
                 <<k, acc, bits - n * tobits,
                   st[4] \o [j \in 1..n |->
                                And(Shr(acc, bits - j * tobits), maxv)]>>)

\* convertbits that does not look at the number of leftover bits
convertbits_any_leftover(data, frombits, tobits, pad) ==
    LET r == ConvertLoop(data, frombits, tobits, <<0, 0, 0, <<>> >>)
        acc == r[1][1]
        bits == r[1][2]
        out == r[1][3]
        maxv == Shl(1, tobits) - 1
    IN  IF r = None THEN None
        ELSE IF pad
        THEN (IF bits # 0
              THEN Some(Append(out, And(Shl(acc, tobits - bits), maxv)))
              ELSE Some(out))
        ELSE IF And(Shl(acc, tobits - bits), maxv) # 0
        THEN None
        ELSE Some(out)

convertbits(data, frombits, tobits, pad) ==
    LET r == ConvertLoop(data, frombits, tobits, <<0, 0, 0, <<>> >>)
        acc == r[1][1]
        bits == r[1][2]
        out == r[1][3]
        maxv == Shl(1, tobits) - 1
    IN  IF r = None THEN None
        ELSE IF pad
        THEN (IF bits # 0
              THEN Some(Append(out, And(Shl(acc, tobits - bits), maxv)))
              ELSE Some(out))
        ELSE IF bits >= frombits \/ And(Shl(acc, tobits - bits), maxv) # 0
        THEN None
        ELSE Some(out)

\* decode that accepts every witness version
decode_any_version(hrp, addr) ==
    LET got == bech32_decode(addr)
        hrpgot == got[1]
        data == got[2][1]
        decoded == convertbits(Slice(data, 1, Len(data)), 5, 8, FALSE)
    IN  IF hrpgot # Some(hrp) THEN <<None, None>>
        ELSE IF decoded = None \/ Len(decoded[1]) < 2 \/ Len(decoded[1]) > 40
        THEN <<None, None>>
        ELSE IF data[1] = 0 /\ Len(decoded[1]) # 20 /\ Len(decoded[1]) # 32
        THEN <<None, None>>
        ELSE <<Some(data[1]), decoded>>

\* (witness version, witness program), each None or a value
decode(hrp, addr) ==
    LET got == bech32_decode(addr)
        hrpgot == got[1]
        data == got[2][1]
        decoded == convertbits(Slice(data, 1, Len(data)), 5, 8, FALSE)
    IN  IF hrpgot # Some(hrp) THEN <<None, None>>
        ELSE IF decoded = None \/ Len(decoded[1]) < 2 \/ Len(decoded[1]) > 40
        THEN <<None, None>>
        ELSE IF data[1] > 16 THEN <<None, None>>
        ELSE IF data[1] = 0 /\ Len(decoded[1]) # 20 /\ Len(decoded[1]) # 32
        THEN <<None, None>>
        ELSE <<Some(data[1]), decoded>>

validate_bech32(bitcoin_address, hrp) == decode(hrp, bitcoin_address)[1] # None

validate(py, bitcoin_address, testnet) ==
    LET magicbyte == IF testnet THEN <<111, 196>> ELSE <<0, 5>>
        bech32_hrp == IF testnet THEN <<116, 98>> ELSE <<98, 99>>
    IN  IF Lower(Slice(bitcoin_address, 0, 2)) = bech32_hrp
        THEN Return(validate_bech32(bitcoin_address, bech32_hrp))
        ELSE validate_base58(py, bitcoin_address, magicbyte)

-----------------------------------------------------------------------------
(* Addresses of tests.py *)

\* '1AGNa15ZQXAZUgFiqJ2i7Z2DPU2J6hW62i'
A_valid ==
    <<49, 65, 71, 78, 97, 49, 53, 90, 81, 88, 65, 90, 85, 103, 70, 105, 113,
    74, 50, 105, 55, 90, 50, 68, 80, 85, 50, 74, 54, 104, 87, 54, 50, 105>>

\* '1111111111111111111114oLvT2'
A_zeros ==
    <<49, 49, 49, 49, 49, 49, 49, 49, 49, 49, 49, 49, 49, 49, 49, 49, 49,
    49, 49, 49, 49, 52, 111, 76, 118, 84, 50>>

\* '1cYxzmWaSsjdrfTqzJ1zTXtR7k8je9qVv'
A_short33 ==
    <<49, 99, 89, 120, 122, 109, 87, 97, 83, 115, 106, 100, 114, 102, 84,
    113, 122, 74, 49, 122, 84, 88, 116, 82, 55, 107, 56, 106, 101, 57, 113,
    86, 118>>

\* '3QJmV3qfvL9SuYo34YihAf3sRCW3qSinyC'
A_multisig ==
    <<51, 81, 74, 109, 86, 51, 113, 102, 118, 76, 57, 83, 117, 89, 111, 51,
    52, 89, 105, 104, 65, 102, 51, 115, 82, 67, 87, 51, 113, 83, 105, 110,
    121, 67>>

\* 'mpc1rKeaMSCuQnJevMViLuq8uWjHwgdjiV'
A_testnet ==
    <<109, 112, 99, 49, 114, 75, 101, 97, 77, 83, 67, 117, 81, 110, 74, 101,
    118, 77, 86, 105, 76, 117, 113, 56, 117, 87, 106, 72, 119, 103, 100,
    106, 105, 86>>

\* 'LRNYxwQsHpm2A1VhawrJQti3nUkPN7vtq3'
A_litecoin ==
    <<76, 82, 78, 89, 120, 119, 81, 115, 72, 112, 109, 50, 65, 49, 86, 104,
    97, 119, 114, 74, 81, 116, 105, 51, 110, 85, 107, 80, 78, 55, 118, 116,
    113, 51>>

\* '14oLvT2'
A_nopad ==
    <<49, 52, 111, 76, 118, 84, 50>>

\* '111111111111111111114oLvT2'
A_shortpad ==
    <<49, 49, 49, 49, 49, 49, 49, 49, 49, 49, 49, 49, 49, 49, 49, 49, 49,
    49, 49, 49, 52, 111, 76, 118, 84, 50>>

\* '12HzMcHURwmAxAkfWgtktYsF3vRTkBz4F4'
A_badsum ==
    <<49, 50, 72, 122, 77, 99, 72, 85, 82, 119, 109, 65, 120, 65, 107, 102,
    87, 103, 116, 107, 116, 89, 115, 70, 51, 118, 82, 84, 107, 66, 122, 52,
    70, 52>>

\* '1C9wCniTU7PP7NLhFFHhMQfhmkqdY37zu?'
A_badchar ==
    <<49, 67, 57, 119, 67, 110, 105, 84, 85, 55, 80, 80, 55, 78, 76, 104,
    70, 70, 72, 104, 77, 81, 102, 104, 109, 107, 113, 100, 89, 51, 55, 122,
    117, 63>>

\* ' 1C9wCniTU7PP7NLhFFHhMQfhmkqdY37zuP'
A_space ==
    <<32, 49, 67, 57, 119, 67, 110, 105, 84, 85, 55, 80, 80, 55, 78, 76,
    104, 70, 70, 72, 104, 77, 81, 102, 104, 109, 107, 113, 100, 89, 51, 55,
    122, 117, 80>>

-----------------------------------------------------------------------------
(* The caller: it makes the calls of arg in order, and stops at the first  *)
(* call that raises.                                                       *)

\* after the calls with the results done
NextPc(done) ==
    IF done[Len(done)].exc # "" THEN "raised"
    ELSE IF Len(done) = Len(arg) THEN "done"
    ELSE arg[Len(done) + 1].f

InitCalls(scripts) ==
    /\ arg \in scripts
    /\ python \in Interpreters
    /\ ret = <<>>
    /\ pc = arg[1].f

CallValidateBase58 ==
    /\ pc = "validate_base58"
    /\ ret' = Append(ret, validate_base58(python, arg[Len(ret) + 1].address, arg[Len(ret) + 1].magicbyte))
    /\ pc' = NextPc(ret')
    /\ UNCHANGED <<python, arg>>

-----------------------------------------------------------------------------
(* Inputs of validate_base58: the addresses of tests.py and, of each, the  *)
(* variants that keep or break one of the function's checks                *)

MaxPad == 2    \* '1' characters put in front of an address
MaxWrap == 2   \* multiples of 256^25 added to the number of an address
MaxEdge == 1   \* characters replaced at each end of an address

Base58Seeds ==
    {A_valid, A_zeros, A_short33, A_multisig, A_testnet, A_litecoin,
     A_nopad, A_shortpad, A_badsum, A_badchar, A_space}

\* '1', '2', 'z', and '0', which is no base58 digit
SubstChars == {49, 50, 122, 48}

MagicBytes == {<<0, 5>>, <<111, 196>>}

Subst(a, p, c) == [i \in 1..Len(a) |-> IF i = p THEN c ELSE a[i]]

Padded(a, j) == Repeat(49, j) \o a

\* the base58 numeral of k * 256^25 + (the number of a mod 256^25)
Wrapped(a, k) ==
    LET n == DecodeDigits(a, <<0, <<>> >>)
    IN  IF n = None THEN a
        ELSE encode_base58(<<k>> \o long_to_bytes(n[1], 25, "big"))

Base58Variants(a) ==
    {a}
      \cup {Padded(a, j) : j \in 1..MaxPad}
      \cup {Slice(a, 1, Len(a))}
      \cup {Wrapped(a, k) : k \in 1..MaxWrap}
      \cup {Subst(a, p, c) :
              p \in {q \in 1..Len(a) : q <= MaxEdge \/ q > Len(a) - MaxEdge},
              c \in SubstChars}

Base58Call(a, m) == [f |-> "validate_base58", address |-> a, magicbyte |-> m]

\* an address of tests.py, then one of its variants or the other network
Base58Scripts(seeds) ==
    UNION {
        {<<Base58Call(a, m), Base58Call(b, m)>> : b \in Base58Variants(a)}
          \cup {<<Base58Call(a, m), Base58Call(a, n)>> : n \in MagicBytes}
        : a \in seeds, m \in MagicBytes }

InitBase58 == InitCalls(Base58Scripts(Base58Seeds))

NextBase58 == CallValidateBase58

SpecBase58 == InitBase58 /\ [][NextBase58]_vars

-----------------------------------------------------------------------------
(* Properties of validate_base58, under SpecBase58 *)

RECURSIVE LeadingOnes(_)
LeadingOnes(a) ==
    IF a # <<>> /\ Head(a) = 49 THEN 1 + LeadingOnes(Tail(a)) ELSE 0

IsBase58Call(k) == arg[k].f = "validate_base58"

\* the magic byte and the checksum of the 25 bytes are the ones validate_base58
\* asks for
PayloadPasses(bcbytes, magicbyte) ==
    /\ bcbytes[1] \in Range(magicbyte)
    /\ SubSeq(bcbytes, 22, 25) = Checksum(bcbytes)

\* C2: validate_base58 returns True only for an address a with
\* encode_base58(decode_base58(a, 25)) = a, so never for an address whose
\* leading '1' characters differ in number from the leading zero bytes of its
\* 25-byte decoding, whatever its magic byte and checksum.
C2_AcceptedOnlyIfCanonical ==
    \A k \in 1..Len(ret) :
        IsBase58Call(k) /\ Returns(ret[k], TRUE)
          => LET a == arg[k].address
                 dec == decode_base58(python, a, 25)
             IN  /\ dec.exc = ""
                 /\ encode_base58(dec.val[1]) = a
                 /\ LeadingOnes(a) = CountZeros(dec.val[1], 1)

\* an address of tests.py was accepted, and the same address with one more
\* '1' in front, which has the same 25 bytes, so a matching magic byte and
\* checksum, was rejected
C2_Witness ==
    /\ pc = "done"
    /\ IsBase58Call(1) /\ IsBase58Call(2)
    /\ Returns(ret[1], TRUE)
    /\ Returns(ret[2], FALSE)
    /\ arg[2].address = Padded(arg[1].address, 1)
    /\ arg[2].magicbyte = arg[1].magicbyte
    /\ LET dec == decode_base58(python, arg[2].address, 25)
       IN  /\ dec.exc = ""
           /\ LeadingOnes(arg[2].address) # CountZeros(dec.val[1], 1)
           /\ PayloadPasses(dec.val[1], arg[2].magicbyte)

\* C3: validate_base58 returns False whenever the first byte of the 25-byte
\* decoding is not one of the magic bytes, and no address is accepted both
\* with the mainnet and with the testnet magic bytes.
C3_MagicByteGating ==
    /\ \A k \in 1..Len(ret) :
           LET dec == decode_base58(python, arg[k].address, 25)
           IN  IsBase58Call(k) /\ dec.exc = ""
                 /\ dec.val[1][1] \notin Range(arg[k].magicbyte)
                 => Returns(ret[k], FALSE)
    /\ \A j, k \in 1..Len(ret) :
           IsBase58Call(j) /\ IsBase58Call(k)
             /\ arg[j].address = arg[k].address
             /\ arg[j].magicbyte # arg[k].magicbyte
             => ~(Returns(ret[j], TRUE) /\ Returns(ret[k], TRUE))

\* the number of the address does not fit in 25 bytes
Overflows(a) ==
    LET n == DecodeDigits(a, <<0, <<>> >>)
    IN  n # None /\ Len(n[1]) > 25

\* C10: validate_base58 never returns True for an address of 27 to 35 base58
\* characters whose number is 256^25 or more.
C10_OverflowNeverAccepted ==
    \A k \in 1..Len(ret) :
        IsBase58Call(k)
          /\ Len(arg[k].address) >= 27 /\ Len(arg[k].address) <= 35
          /\ Overflows(arg[k].address)
          => ~Returns(ret[k], TRUE)

\* an address of tests.py was accepted, and the address whose number is
\* larger by 256^25, which is cut to the same 25 bytes, was rejected
C10_Witness ==
    /\ pc = "done"
    /\ python = "py2"
    /\ IsBase58Call(1) /\ IsBase58Call(2)
    /\ Returns(ret[1], TRUE)
    /\ Returns(ret[2], FALSE)
    /\ arg[2].address = Wrapped(arg[1].address, 1)
    /\ arg[2].magicbyte = arg[1].magicbyte
    /\ Len(arg[2].address) = 35
    /\ Overflows(arg[2].address)
    /\ decode_base58(python, arg[2].address, 25)
         = decode_base58(python, arg[1].address, 25)

-----------------------------------------------------------------------------
(* encode_base58 of a byte string and decode_base58 of the text it gives,  *)
(* as Base58 text is written: every text of base58 digits is encode_base58 *)
(* of the bytes of its number behind one zero byte per leading '1'         *)

CallEncodeBase58 ==
    /\ pc = "encode_base58"
    /\ ret' = Append(ret, Return(encode_base58(arg[Len(ret) + 1].bytestring)))
    /\ pc' = NextPc(ret')
    /\ UNCHANGED <<python, arg>>

\* decode_base58 of the text the call before returned
CallDecodeBase58 ==
    /\ pc = "decode_base58"
    /\ ret' = Append(ret, decode_base58(python, ret[Len(ret)].val[1],
                                         arg[Len(ret) + 1].length))
    /\ pc' = NextPc(ret')
    /\ UNCHANGED <<python, arg>>

PayloadLen == 25  \* the length validate_base58 decodes to
MaxShort == 2     \* byte strings and lengths of 0..MaxShort bytes
MaxExtra == 1     \* byte strings of up to PayloadLen + MaxExtra bytes

\* (i * 37 + 11) % 256 is a byte pattern without a period
TailBytes(len) ==
    {Repeat(0, len), Repeat(255, len), [i \in 1..len |-> (i * 37 + 11) % 256]}

\* byte strings of the length len: zero bytes, then a byte that is not zero
\* and the bytes behind it
ByteStrings(len) ==
    {Repeat(0, len)}
      \cup UNION {
              {Repeat(0, z) \o <<x>> \o t : t \in TailBytes(len - z - 1)}
              : z \in 0..(len - 1), x \in {1, 128, 255} }

\* a byte string of one of the lengths lens is encoded and the text decoded
\* to one of the lengths
CodecScripts(lens, lengths) ==
    {<<[f |-> "encode_base58", bytestring |-> b],
       [f |-> "decode_base58", length |-> n]>> :
        b \in UNION {ByteStrings(len) : len \in lens}, n \in lengths}

InitCodec ==
    InitCalls(CodecScripts((0..MaxShort)
                             \cup (PayloadLen..(PayloadLen + MaxExtra)),
                           (1..MaxShort) \cup {PayloadLen}))

NextCodec == CallEncodeBase58 \/ CallDecodeBase58

SpecCodec == InitCodec /\ [][NextCodec]_vars

\* the last n bytes of the byte string b with zero bytes in front of it: the
\* big-endian bytes of (the number of b) mod 256^n
LowBytes(b, n) ==
    LET padded == Repeat(0, n) \o b
    IN  SubSeq(padded, Len(padded) - n + 1, Len(padded))

\* C6: decode_base58(encode_base58(b), 25) = b for every byte string b of
\* 25 bytes, the leading zero bytes included.
C6_RoundTrip ==
    Len(arg[1].bytestring) = PayloadLen /\ arg[2].length = PayloadLen
      => /\ pc # "raised"
         /\ Len(ret) = 2 => Returns(ret[2], arg[1].bytestring)

\* 25 bytes with some leading zero bytes went through both calls: the text
\* has as many leading '1' characters and decodes to the same bytes
C6_Witness ==
    /\ pc = "done"
    /\ Len(arg[1].bytestring) = PayloadLen /\ arg[2].length = PayloadLen
    /\ CountZeros(arg[1].bytestring, 1) \in 1..(PayloadLen - 1)
    /\ LeadingOnes(ret[1].val[1]) = CountZeros(arg[1].bytestring, 1)
    /\ Len(ret[1].val[1]) > LeadingOnes(ret[1].val[1])
    /\ Returns(ret[2], arg[1].bytestring)

\* C7: decode_base58(text, length) raises nothing and returns the length
\* bytes of (the number of text) mod 256^length, also when the number needs
\* more bytes than length.
C7_TruncatesSilently ==
    Len(ret) >= 1
      => /\ pc # "raised"
         /\ Len(ret) = 2
              => Returns(ret[2], LowBytes(arg[1].bytestring, arg[2].length))

\* 'BC1QW508D6QEJXTDG4Y5R3ZARVARY0C5XW7KV8F3T4'
B_v0_p2wpkh ==
    <<66, 67, 49, 81, 87, 53, 48, 56, 68, 54, 81, 69, 74, 88, 84, 68, 71,
    52, 89, 53, 82, 51, 90, 65, 82, 86, 65, 82, 89, 48, 67, 53, 88, 87, 55,
    75, 86, 56, 70, 51, 84, 52>>

\* 'tb1qrp33g0q5c5txsp9arysrx4k6zdkfs4nce4xj0gdcccefvpysxf3q0sl5k7'
B_tb_p2wsh ==
    <<116, 98, 49, 113, 114, 112, 51, 51, 103, 48, 113, 53, 99, 53, 116,
    120, 115, 112, 57, 97, 114, 121, 115, 114, 120, 52, 107, 54, 122, 100,
    107, 102, 115, 52, 110, 99, 101, 52, 120, 106, 48, 103, 100, 99, 99, 99,
    101, 102, 118, 112, 121, 115, 120, 102, 51, 113, 48, 115, 108, 53, 107,
    55>>

\* 'bc1pw508d6qejxtdg4y5r3zarvary0c5xw7kw508d6qejxtdg4y5r3zarvary0c5xw7k7grplx'
B_v1_40 ==
    <<98, 99, 49, 112, 119, 53, 48, 56, 100, 54, 113, 101, 106, 120, 116,
    100, 103, 52, 121, 53, 114, 51, 122, 97, 114, 118, 97, 114, 121, 48, 99,
    53, 120, 119, 55, 107, 119, 53, 48, 56, 100, 54, 113, 101, 106, 120,
    116, 100, 103, 52, 121, 53, 114, 51, 122, 97, 114, 118, 97, 114, 121,
    48, 99, 53, 120, 119, 55, 107, 55, 103, 114, 112, 108, 120>>

\* 'BC1SW50QA3JX3S'
B_v16_2 ==
    <<66, 67, 49, 83, 87, 53, 48, 81, 65, 51, 74, 88, 51, 83>>

\* 'tb1qqqqqp399et2xygdj5xreqhjjvcmzhxw4aywxecjdzew6hylgvsesrxh6hy'
B_tb_p2wsh2 ==
    <<116, 98, 49, 113, 113, 113, 113, 113, 112, 51, 57, 57, 101, 116, 50,
    120, 121, 103, 100, 106, 53, 120, 114, 101, 113, 104, 106, 106, 118, 99,
    109, 122, 104, 120, 119, 52, 97, 121, 119, 120, 101, 99, 106, 100, 122,
    101, 119, 54, 104, 121, 108, 103, 118, 115, 101, 115, 114, 120, 104, 54,
    104, 121>>

\* 'tc1qw508d6qejxtdg4y5r3zarvary0c5xw7kg3g4ty'
B_hrp_tc ==
    <<116, 99, 49, 113, 119, 53, 48, 56, 100, 54, 113, 101, 106, 120, 116,
    100, 103, 52, 121, 53, 114, 51, 122, 97, 114, 118, 97, 114, 121, 48, 99,
    53, 120, 119, 55, 107, 103, 51, 103, 52, 116, 121>>

\* 'bc1qw508d6qejxtdg4y5r3zarvary0c5xw7kv8f3t5'
B_badsum ==
    <<98, 99, 49, 113, 119, 53, 48, 56, 100, 54, 113, 101, 106, 120, 116,
    100, 103, 52, 121, 53, 114, 51, 122, 97, 114, 118, 97, 114, 121, 48, 99,
    53, 120, 119, 55, 107, 118, 56, 102, 51, 116, 53>>

\* 'BC13W508D6QEJXTDG4Y5R3ZARVARY0C5XW7KN40WF2'
B_v17 ==
    <<66, 67, 49, 51, 87, 53, 48, 56, 68, 54, 81, 69, 74, 88, 84, 68, 71,
    52, 89, 53, 82, 51, 90, 65, 82, 86, 65, 82, 89, 48, 67, 53, 88, 87, 55,
    75, 78, 52, 48, 87, 70, 50>>

\* 'bc1rw5uspcuh'
B_prog1 ==
    <<98, 99, 49, 114, 119, 53, 117, 115, 112, 99, 117, 104>>

\* 'bc10w508d6qejxtdg4y5r3zarvary0c5xw7kw508d6qejxtdg4y5r3zarvary0c5xw7kw5rljs90'
B_prog41 ==
    <<98, 99, 49, 48, 119, 53, 48, 56, 100, 54, 113, 101, 106, 120, 116,
    100, 103, 52, 121, 53, 114, 51, 122, 97, 114, 118, 97, 114, 121, 48, 99,
    53, 120, 119, 55, 107, 119, 53, 48, 56, 100, 54, 113, 101, 106, 120,
    116, 100, 103, 52, 121, 53, 114, 51, 122, 97, 114, 118, 97, 114, 121,
    48, 99, 53, 120, 119, 55, 107, 119, 53, 114, 108, 106, 115, 57, 48>>

\* 'BC1QR508D6QEJXTDG4Y5R3ZARVARYV98GJ9P'
B_v0_16 ==
    <<66, 67, 49, 81, 82, 53, 48, 56, 68, 54, 81, 69, 74, 88, 84, 68, 71,
    52, 89, 53, 82, 51, 90, 65, 82, 86, 65, 82, 89, 86, 57, 56, 71, 74, 57,
    80>>

\* 'tb1qrp33g0q5c5txsp9arysrx4k6zdkfs4nce4xj0gdcccefvpysxf3q0sL5k7'
B_mixed ==
    <<116, 98, 49, 113, 114, 112, 51, 51, 103, 48, 113, 53, 99, 53, 116,
    120, 115, 112, 57, 97, 114, 121, 115, 114, 120, 52, 107, 54, 122, 100,
    107, 102, 115, 52, 110, 99, 101, 52, 120, 106, 48, 103, 100, 99, 99, 99,
    101, 102, 118, 112, 121, 115, 120, 102, 51, 113, 48, 115, 76, 53, 107,
    55>>

\* 'bc1zw508d6qejxtdg4y5r3zarvaryvqyzf3du'
B_pad5 ==
    <<98, 99, 49, 122, 119, 53, 48, 56, 100, 54, 113, 101, 106, 120, 116,
    100, 103, 52, 121, 53, 114, 51, 122, 97, 114, 118, 97, 114, 121, 118,
    113, 121, 122, 102, 51, 100, 117>>

\* 'tb1qrp33g0q5c5txsp9arysrx4k6zdkfs4nce4xj0gdcccefvpysxf3pjxtptv'
B_padbits ==
    <<116, 98, 49, 113, 114, 112, 51, 51, 103, 48, 113, 53, 99, 53, 116,
    120, 115, 112, 57, 97, 114, 121, 115, 114, 120, 52, 107, 54, 122, 100,
    107, 102, 115, 52, 110, 99, 101, 52, 120, 106, 48, 103, 100, 99, 99, 99,
    101, 102, 118, 112, 121, 115, 120, 102, 51, 112, 106, 120, 116, 112,
    116, 118>>

\* 'bc1gmk9yu'
B_empty ==
    <<98, 99, 49, 103, 109, 107, 57, 121, 117>>

-----------------------------------------------------------------------------
(* validate: the calls of tests.py, then of every Bech32 address of        *)
(* tests.py the address with one character replaced and the address in     *)
(* other cases                                                             *)

CallValidate ==
    /\ pc = "validate"
    /\ ret' = Append(ret, validate(python, arg[Len(ret) + 1].address, arg[Len(ret) + 1].testnet))
    /\ pc' = NextPc(ret')
    /\ UNCHANGED <<python, arg>>

CallDecode ==
    /\ pc = "decode"
    /\ ret' = Append(ret, Return(decode(arg[Len(ret) + 1].hrp, arg[Len(ret) + 1].addr)))
    /\ pc' = NextPc(ret')
    /\ UNCHANGED <<python, arg>>

Bech32Seeds ==
    {B_v0_p2wpkh, B_tb_p2wsh, B_v1_40, B_v16_2, B_tb_p2wsh2, B_hrp_tc,
     B_badsum, B_v17, B_prog1, B_prog41, B_v0_16, B_mixed, B_pad5,
     B_padbits, B_empty}

\* '', 'b', 'bc', 'bc1', 'tb1' and 35 times 'z', a number of 256^25 or more
EdgeStrings ==
    {<<>>, <<98>>, <<98, 99>>, <<98, 99, 49>>, <<116, 98, 49>>,
     Repeat(122, 35)}

HrpOf(testnet) == IF testnet THEN <<116, 98>> ELSE <<98, 99>>

\* the network whose HRP the string starts with, in any case
Networks(a) == {t \in BOOLEAN : Lower(Slice(a, 0, 2)) = HrpOf(t)}

IsLetter(c) == (c >= 65 /\ c <= 90) \/ (c >= 97 /\ c <= 122)

ToggleCase(a, p) ==
    Subst(a, p, IF a[p] >= 97 THEN UpperChar(a[p]) ELSE LowerChar(a[p]))

MaxToggle == 6  \* the letters of an address whose case is changed, one a time

\* 'q', 'l' (the values 0 and 31), '1', 'b' (no Bech32 character) and 'Q'
Bech32SubstChars == {113, 108, 49, 98, 81}

\* the addresses a character is replaced in
SubstSeeds == {B_v16_2, B_v0_p2wpkh, B_tb_p2wsh, B_badsum}

ValidateCall(a, t) == [f |-> "validate", address |-> a, testnet |-> t]
DecodeCall(h, a) == [f |-> "decode", hrp |-> h, addr |-> a]

\* the string as it is, in lower and in upper case
CaseScript(s, t) ==
    <<ValidateCall(s, t), ValidateCall(Lower(s), t), ValidateCall(Upper(s), t),
      DecodeCall(HrpOf(t), Lower(s)), DecodeCall(HrpOf(t), Upper(s))>>

CaseVariants(a) ==
    {a, Lower(a), Upper(a)}
      \cup {ToggleCase(a, p) :
              p \in {q \in 1..Len(a) : IsLetter(a[q]) /\ q <= MaxToggle}}
      \cup {Subst(Upper(a), p, KELVIN) :
              p \in {q \in 3..Len(a) : UpperChar(a[q]) = 75}}

\* the address with one character behind the HRP replaced by another one
Substitutions(a) ==
    {Subst(a, x[1], x[2]) :
        x \in {y \in (3..Len(a)) \X Bech32SubstChars : a[y[1]] # y[2]}}

ValidateScripts(seeds) ==
    {<<ValidateCall(a, FALSE), ValidateCall(a, TRUE)>> :
        a \in Base58Seeds \cup seeds \cup EdgeStrings}
      \cup UNION {
              {<<ValidateCall(a, t), ValidateCall(b, t)>> :
                  b \in Substitutions(a), t \in Networks(a)}
              : a \in SubstSeeds }
      \cup UNION {
              {CaseScript(s, t) : s \in CaseVariants(a), t \in Networks(a)}
              : a \in seeds }

InitValidate == InitCalls(ValidateScripts(Bech32Seeds))

NextValidate == CallValidate \/ CallDecode

SpecValidate == InitValidate /\ [][NextValidate]_vars

-----------------------------------------------------------------------------
(* Properties of validate, under SpecValidate *)

IsValidateCall(k) == arg[k].f = "validate"

\* C1: validate ends with True or False and raises nothing, whatever the
\* string and the network.
C1_ValidateNeverRaises ==
    /\ pc # "raised"
    /\ \A k \in 1..Len(ret) :
           IsValidateCall(k) => ret[k].exc = "" /\ ret[k].val[1] \in BOOLEAN

StartsWithHrp(s, testnet) == Lower(Slice(s, 0, 2)) = HrpOf(testnet)

HasUpper(s) == \E i \in 1..Len(s) : (s[i] >= 65 /\ s[i] <= 90) \/ s[i] = KELVIN
HasLower(s) == \E i \in 1..Len(s) : s[i] >= 97 /\ s[i] <= 122
MixedCase(s) == HasUpper(s) /\ HasLower(s)
IsAscii(s) == \A i \in 1..Len(s) : s[i] < 128

\* the caller has made the five calls of CaseScript
CaseScriptDone == Len(arg) = 5 /\ Len(ret) = 5

\* validate returns False for a string that starts with the HRP and has
\* letters of both cases
MixedCaseRejected ==
    \A k \in 1..Len(ret) :
        IsValidateCall(k) /\ StartsWithHrp(arg[k].address, arg[k].testnet)
          /\ MixedCase(arg[k].address)
          => Returns(ret[k], FALSE)

\* C4 as stated: mixed case is rejected, and for every string s that starts
\* with the HRP and is not of mixed case, validate and decode give the same
\* for s.lower() and s.upper().
C4_CaseRule ==
    /\ MixedCaseRejected
    /\ CaseScriptDone /\ StartsWithHrp(arg[1].address, arg[1].testnet)
         /\ ~MixedCase(arg[1].address)
         => ret[2] = ret[3] /\ ret[4] = ret[5]

\* C4 as amended: the same, for every such s of ASCII characters.
C4_CaseRuleAscii ==
    /\ MixedCaseRejected
    /\ CaseScriptDone /\ StartsWithHrp(arg[1].address, arg[1].testnet)
         /\ ~MixedCase(arg[1].address) /\ IsAscii(arg[1].address)
         => ret[2] = ret[3] /\ ret[4] = ret[5]

\* an address in upper case was accepted as it is, in lower and in upper
\* case, and decoded to the same version and program in both
C4_Witness ==
    /\ pc = "done"
    /\ CaseScriptDone
    /\ StartsWithHrp(arg[1].address, arg[1].testnet)
    /\ HasUpper(arg[1].address) /\ ~HasLower(arg[1].address)
    /\ IsAscii(arg[1].address)
    /\ arg[2].address # arg[3].address
    /\ Returns(ret[1], TRUE) /\ Returns(ret[2], TRUE) /\ Returns(ret[3], TRUE)
    /\ ret[4] = ret[5]
    /\ ret[4].val[1][1] # None

\* b is a with one character behind the two of the HRP replaced
OneCharReplaced(a, b) ==
    /\ Len(a) = Len(b)
    /\ Cardinality({i \in 1..Len(a) : a[i] # b[i]}) = 1
    /\ \A i \in 1..2 : a[i] = b[i]

\* C9: when validate accepts a Bech32 address, it returns False for the
\* address with any one character behind the HRP replaced by another.
C9_OneCharReplacedRejected ==
    \A j, k \in 1..Len(ret) :
        IsValidateCall(j) /\ IsValidateCall(k)
          /\ arg[j].testnet = arg[k].testnet
          /\ StartsWithHrp(arg[j].address, arg[j].testnet)
          /\ Returns(ret[j], TRUE)
          /\ OneCharReplaced(arg[j].address, arg[k].address)
          => Returns(ret[k], FALSE)

\* an address was accepted and then rejected with one data character
\* replaced by another character of CHARSET, in the case of the address
C9_Witness ==
    /\ pc = "done"
    /\ Len(ret) = 2
    /\ IsValidateCall(1) /\ IsValidateCall(2)
    /\ arg[1].testnet = arg[2].testnet
    /\ StartsWithHrp(arg[1].address, arg[1].testnet)
    /\ OneCharReplaced(arg[1].address, arg[2].address)
    /\ arg[2].address = Lower(arg[2].address)
    /\ \A i \in 4..Len(arg[2].address) : Find(CHARSET, arg[2].address[i]) >= 0
    /\ Returns(ret[1], TRUE)
    /\ Returns(ret[2], FALSE)

-----------------------------------------------------------------------------
(* decode and validate_bech32: the Bech32 strings of tests.py, and segwit  *)
(* addresses made for an HRP, a witness version and a witness program      *)

CallValidateBech32 ==
    /\ pc = "validate_bech32"
    /\ ret' = Append(ret, Return(validate_bech32(
                              arg[Len(ret) + 1].bitcoin_address,
                              arg[Len(ret) + 1].hrp)))
    /\ pc' = NextPc(ret')
    /\ UNCHANGED <<python, arg>>

\* the six checksum values of BIP-173 for an HRP and data
Bech32Checksum(hrp, data) ==
    LET polymod == Xor(bech32_polymod(bech32_hrp_expand(hrp) \o data
                                        \o <<0, 0, 0, 0, 0, 0>>), 1)
    IN  [i \in 1..6 |-> And(Shr(polymod, 5 * (6 - i)), 31)]

Bech32Encode(hrp, data) ==
    LET all == data \o Bech32Checksum(hrp, data)
    IN  hrp \o <<49>> \o [i \in 1..Len(all) |-> CHARSET[all[i] + 1]]

SegwitAddress(hrp, witver, witprog) ==
    Bech32Encode(hrp, <<witver>> \o convertbits(witprog, 8, 5, TRUE)[1])

MaxProgram == 41  \* witness programs of 0..MaxProgram bytes

\* "bc" and "tb"
SegwitHrps == {<<98, 99>>, <<116, 98>>}

WitnessVersions == {0, 16, 17}

\* the Bech32 strings of tests.py, and an address for every HRP, witness
\* version and length of the program
SegwitInputs(seeds) ==
    seeds
      \cup {SegwitAddress(h, v, [i \in 1..n |-> (i * 37 + 11) % 256]) :
              h \in SegwitHrps, v \in WitnessVersions, n \in 0..MaxProgram}

SegwitScripts(seeds) ==
    {<<DecodeCall(h, a),
       [f |-> "validate_bech32", bitcoin_address |-> a, hrp |-> h]>> :
        a \in SegwitInputs(seeds), h \in {HrpOf(FALSE), HrpOf(TRUE)}}

InitSegwit == InitCalls(SegwitScripts(Bech32Seeds))

NextSegwit == CallDecode \/ CallValidateBech32

SpecSegwit == InitSegwit /\ [][NextSegwit]_vars

IsDecodeCall(k) == arg[k].f = "decode"

DecodeRejected(k) == ret[k].val[1] = <<None, None>>

\* one of the reasons C5 names holds of the address of the call k
SegwitViolation(k) ==
    LET got == bech32_decode(arg[k].addr)
        data == got[2][1]
        prog == convertbits(Slice(data, 1, Len(data)), 5, 8, FALSE)
    IN  \/ got[1] # Some(arg[k].hrp)
        \/ data = <<>>
        \/ data[1] > 16
        \/ prog # None /\ (Len(prog[1]) < 2 \/ Len(prog[1]) > 40)
        \/ prog # None /\ data[1] = 0 /\ Len(prog[1]) \notin {20, 32}

\* C5: decode returns (None, None), and validate_bech32 False, when the HRP
\* of the address is not the one asked for, the witness version is above 16,
\* the program has fewer than 2 or more than 40 bytes, or the version is 0
\* and the program has neither 20 nor 32 bytes; a version v and a program p
\* it returns have 0 <= v <= 16 and 2 <= len(p) <= 40.
C5_SegwitConstraints ==
    \A k \in 1..(Len(ret) - 1) :
        IsDecodeCall(k) /\ arg[k + 1].f = "validate_bech32"
          => /\ ~DecodeRejected(k) \/ ~Returns(ret[k + 1], FALSE)
                  => ~SegwitViolation(k)
             /\ ~DecodeRejected(k)
                  => LET v == ret[k].val[1][1]
                         p == ret[k].val[1][2]
                     IN  /\ v # None /\ p # None
                         /\ v[1] >= 0 /\ v[1] <= 16
                         /\ Len(p[1]) >= 2 /\ Len(p[1]) <= 40

\* an address with the HRP asked for, a valid checksum and a program of 20
\* bytes, but the witness version 17, was rejected by both functions
C5_Witness ==
    /\ pc = "done"
    /\ IsDecodeCall(1)
    /\ LET got == bech32_decode(arg[1].addr)
           data == got[2][1]
           prog == convertbits(Slice(data, 1, Len(data)), 5, 8, FALSE)
       IN  /\ got[1] = Some(arg[1].hrp)
           /\ data # <<>> /\ data[1] = 17
           /\ prog # None /\ Len(prog[1]) = 20
    /\ DecodeRejected(1)
    /\ Returns(ret[2], FALSE)

-----------------------------------------------------------------------------
\* convertbits called on its own

CallConvertbits ==
    /\ pc = "convertbits"
    /\ ret' = Append(ret, Return(convertbits(arg[Len(ret) + 1].data,
                                             arg[Len(ret) + 1].frombits,
                                             arg[Len(ret) + 1].tobits,
                                             arg[Len(ret) + 1].pad)))
    /\ pc' = NextPc(ret')
    /\ UNCHANGED <<python, arg>>

MaxData == 3  \* convertbits is given 0..MaxData values

\* <<frombits, tobits>>
WidthPairs == {<<5, 8>>, <<8, 5>>, <<1, 3>>, <<3, 1>>, <<2, 3>>, <<4, 4>>}

\* the values at the edges of frombits bits, and just outside them
EdgeValues(frombits) == {-1, 0, 1, 2 ^ frombits - 1, 2 ^ frombits}

SeqsUpTo(S, n) == UNION {[1..m -> S] : m \in 0..n}

ConvertbitsScripts(widths) ==
    UNION {{<<[f |-> "convertbits", data |-> d, frombits |-> w[1],
               tobits |-> w[2], pad |-> p]>> :
              d \in SeqsUpTo(EdgeValues(w[1]), MaxData), p \in BOOLEAN} :
           w \in widths}

InitConvertbits == InitCalls(ConvertbitsScripts(WidthPairs))

NextConvertbits == CallConvertbits

SpecConvertbits == InitConvertbits /\ [][NextConvertbits]_vars

\* the bits of the values of data, each written big-endian on frombits bits
BitString(data, frombits) ==
    [i \in 1..(frombits * Len(data)) |->
        (data[(i - 1) \div frombits + 1]
           \div 2 ^ (frombits - 1 - ((i - 1) % frombits))) % 2]

RECURSIVE BitsValue(_)
BitsValue(b) ==
    IF b = <<>> THEN 0
    ELSE 2 * BitsValue(SubSeq(b, 1, Len(b) - 1)) + b[Len(b)]

\* the full groups of tobits bits of a bit string
Groups(b, tobits) ==
    [g \in 1..(Len(b) \div tobits) |->
        BitsValue(SubSeq(b, (g - 1) * tobits + 1, g * tobits))]

Leftover(b, tobits) == SubSeq(b, (Len(b) \div tobits) * tobits + 1, Len(b))

IsConvertbitsCall(k) == arg[k].f = "convertbits" /\ ~arg[k].pad

ConvertbitsFails(k) ==
    LET data == arg[k].data
        frombits == arg[k].frombits
        left == Leftover(BitString(data, frombits), arg[k].tobits)
    IN  \/ \E i \in 1..Len(data) : data[i] < 0 \/ data[i] >= 2 ^ frombits
        \/ Len(left) >= frombits
        \/ \E i \in 1..Len(left) : left[i] = 1

\* C8: without padding convertbits returns None exactly when a value is
\* negative or does not fit in frombits bits, when frombits or more bits are
\* left over, or when a leftover bit is 1; otherwise it returns the groups of
\* tobits bits of the concatenated bit strings of the values.
C8_ConvertbitsNoPad ==
    \A k \in 1..Len(ret) :
        IsConvertbitsCall(k)
          => IF ConvertbitsFails(k) THEN Returns(ret[k], None)
             ELSE Returns(ret[k],
                          Some(Groups(BitString(arg[k].data, arg[k].frombits),
                                      arg[k].tobits)))

\* two 5-bit values with set bits were repacked without padding into one
\* byte, the two leftover bits being 0
C8_Witness ==
    /\ pc = "done"
    /\ IsConvertbitsCall(1)
    /\ arg[1].frombits = 5 /\ arg[1].tobits = 8
    /\ arg[1].data = <<31, 0>>
    /\ ret[1] = Return(Some(<<248>>))

=============================================================================
